---- MODULE Spec2Model ----
(***************************************************************************)
(* PakistanSalesDataGenerator (src/generate_pakistan_sales_data.py).        *)
(*                                                                          *)
(* The generator is a single-threaded batch run: main calls                 *)
(* generate_all_data, which calls the generators in a fixed order, and then *)
(* export_to_csv.  Each generator is a loop that appends rows to a table.   *)
(* One action models one loop iteration (with every statement of its body)  *)
(* or the return of a generator; an iteration of generate_orders is two     *)
(* actions, as it appends the lines of an order before the order's own row. *)
(* Every call of the random module is a nondeterministic choice; the values *)
(* a choice ranges over are given by a record of draw sets (a "draw         *)
(* profile"), each a subset of the range the code draws from.               *)
(*                                                                          *)
(* Attributes that no later statement reads (names, phones, e-mails,        *)
(* street addresses, notes, ...) are left out of the rows.                  *)
(*                                                                          *)
(* Money.  The code computes amounts in binary floating point and stores    *)
(* round(x, 2).  A discount fraction is modelled as d/FracDen with FracDen  *)
(* a power of two, so the fraction, 1 - fraction, every line amount and     *)
(* every sum of line amounts or line discounts is a binary fraction that    *)
(* the floats hold exactly: the model computes them as integers in units    *)
(* of 1/UnitsPerPaisa paisa (1 paisa = 1/100 rupee), and Python's round,    *)
(* which rounds the exact value half to even, is Round.  The factor 0.15    *)
(* is no binary fraction: tax_amount and final_amount carry a float error   *)
(* far below one unit, so round(x, 2) of them is the nearest paisa and, on  *)
(* an exact tie of the modelled value, either neighbour (RoundNear).        *)
(* Stored amounts are integers in paisa, stored percentages in hundredths   *)
(* of a percent.                                                            *)
(*                                                                          *)
(* Dates are day numbers; today is what datetime.now().date() returns       *)
(* during the run.  rerun follows a second call of generate_orders that is  *)
(* given the same arguments and the same draws on day rerun.today.          *)
(*                                                                          *)
(* The deployment script (src/sct.py) is a second, independent program: a   *)
(* prompt, then a fixed sequence of git commands, recorded in git_commands  *)
(* with the dates each commit is given.  Its variables are idle while the   *)
(* generator runs, and the generator's are idle while it runs.              *)
(***************************************************************************)
EXTENDS Integers, Sequences, FiniteSets, TLC

(* ------------------------------ bounds ------------------------------- *)

MaxCustomers == 2
MaxProducts == 2
MaxStores == 2
MaxEmployees == 2
MaxOrders == 2
\* the largest requested count of a run whose counts may be non-positive
MaxConfigCount == 1
\* the second call of generate_orders is made at most this many days later
MaxDaysApart == 1

(* --------------------------- program constants ------------------------ *)

\* self.product_categories has the keys 1..8
NumCategories == 8
\* random.randint(1, 5): products per order, and quantity per line
MaxProductsPerOrder == 5
MaxQuantity == 5
\* random.randint(0, 500)
MaxShippingCost == 500
\* tax_amount = total_amount * 0.15
TaxPercent == 15
\* random.randint(500, 50000)
MinBasePrice == 500
MaxBasePrice == 50000
\* random.uniform(0.6, 0.8) and random.uniform(1.1, 1.3), in FactorDen-ths
MinCostFactor == 600
MaxCostFactor == 800
MinMsrpFactor == 1100
MaxMsrpFactor == 1300
\* random.randint(0, 730), random.randint(1, 7)
MaxOrderAgeDays == 730
MaxShipDays == 7

\* Resolution of a discount fraction: random.uniform(0, 0.2) is d/FracDen
\* with d/FracDen <= 0.2
FracDen == 2 ^ 8
MaxDiscountFrac == FracDen \div 5
\* Resolution of a price factor: random.uniform(a, b) is f/FactorDen
FactorDen == 1000
\* Unrounded amounts are integers in this unit
UnitsPerPaisa == FracDen
UnitsPerRupee == 100 * UnitsPerPaisa

\* An optional value is a sequence of at most one element
None == <<>>
Some(x) == <<x>>
IsSome(o) == o # <<>>
Get(o) == o[1]
\* error: the uncaught exception, as <<type, source line>>
NoError == <<>>

\* self.store_types
store_types ==
    {"Retail", "Supermarket", "Department Store", "Specialty Store",
     "Outlet", "Mall"}

job_titles ==
    {"Sales Associate", "Cashier", "Manager", "Supervisor",
     "Customer Service", "Stock Clerk"}

\* 'Manager' in e['JOB_TITLE']: the only title containing the substring
IsManagerTitle(t) == t = "Manager"

\* self.customer_segments
customer_segments == {"Premium", "Regular", "Occasional", "VIP"}

\* (mutant) one band for every segment
IncomeBand_OneBand(segment) == 200000..15000000

\* the range random.randint draws annual_income from, given the segment
IncomeBand(segment) ==
    IF segment = "Premium" THEN 1500000..5000000
    ELSE IF segment = "VIP" THEN 5000000..15000000
    ELSE IF segment = "Regular" THEN 500000..1500000
    ELSE 200000..800000

(* ------------------------------ helpers ------------------------------- *)

Min2(a, b) == IF a < b THEN a ELSE b

RECURSIVE SumSeq(_)
SumSeq(s) == IF s = <<>> THEN 0 ELSE s[1] + SumSeq(Tail(s))

\* (mutant) drawn with replacement, as random.choices would
Injections_WithReplacement(n, m) == [1..n -> 1..m]

\* The sequences of n pairwise distinct elements of 1..m: what
\* random.sample(population of size m, n) can return, as indices
Injections(n, m) ==
    {f \in [1..n -> 1..m] : \A a, b \in 1..n : a # b => f[a] # f[b]}

\* round(x / unit) of an exactly held x >= 0: the nearest integer, half
\* to even
Round(x, unit) ==
    LET lo == x \div unit
        r  == x % unit
    IN  IF 2 * r < unit THEN lo
        ELSE IF 2 * r > unit THEN lo + 1
        ELSE IF lo % 2 = 0 THEN lo ELSE lo + 1

\* round(x / unit) of a float within a fraction of a unit of x >= 0: the
\* nearest integer; either neighbour when x is half-way
RoundNear(x, unit) ==
    LET lo == x \div unit
        r  == x % unit
    IN  IF 2 * r < unit THEN {lo}
        ELSE IF 2 * r > unit THEN {lo + 1}
        ELSE {lo, lo + 1}

(* ------------------------------- state -------------------------------- *)

VARIABLES
    pc,               \* the statement generate_all_data is at
    error,            \* the exception that ended the run, or None
    num_customers, num_products, num_stores, num_employees, num_orders,
    i,                \* the running loop variable of the current loop
    address_id,       \* generate_customer_addresses' counter
    customers, customer_addresses, product_categories, products,
    stores, employees, orders, order_details, sales_data,
    files,            \* the names of the tables export_to_csv has written
    order_locals,     \* generate_orders' locals once the lines of order i
                      \* are appended and its own row is not; else None
    sales_filepath,   \* what export_to_csv returned: Some(the table whose
                      \* file the path names), or None before it returns
    today,            \* datetime.now().date() during the run, as a day number
    rerun             \* a second call of generate_orders with the same
                      \* arguments and the same draws, made on day rerun.today:
                      \* its locals and its orders

counts == <<num_customers, num_products, num_stores, num_employees, num_orders>>
tables == <<customers, customer_addresses, product_categories, products,
            stores, employees, orders, order_details, sales_data>>
generator_vars ==
    <<pc, error, counts, i, address_id, tables, files, order_locals,
      sales_filepath, today, rerun>>

\* sct.py, the deployment script
VARIABLES
    deploy_pc,        \* the statement the script is at
    deploy_error,     \* the exception main's handler caught, or None
    answer,           \* what the user typed at the prompt, or None
    confirm,          \* main's variable confirm, or None before the prompt
    TOTAL_COMMITS, START_DATE, END_DATE, COMMIT_MESSAGES,
    existing,         \* the paths os.path.exists is true of
    git_available,    \* whether subprocess.run finds the git executable
    git_dir,          \* whether REPO_PATH/.git exists
    commit_counter,
    stage,            \* the category block create_realistic_commits is at
    git_commands      \* the git commands run so far, with their dates

deploy_config ==
    <<TOTAL_COMMITS, START_DATE, END_DATE, COMMIT_MESSAGES, existing, git_available>>
deploy_vars ==
    <<deploy_pc, deploy_error, answer, confirm, deploy_config, git_dir,
      commit_counter, stage, git_commands>>

vars == <<generator_vars, deploy_vars>>

(* --------------------------- draw profiles ---------------------------- *)

\* The whole ranges the code draws from
FullDraws ==
    [segment       |-> customer_segments,
     annual_income |-> 200000..15000000,
     num_addresses |-> {1, 2},
     category      |-> 1..NumCategories,
     base_price    |-> MinBasePrice..MaxBasePrice,
     cost_factor   |-> MinCostFactor..MaxCostFactor,
     msrp_factor   |-> MinMsrpFactor..MaxMsrpFactor,
     store_type    |-> store_types,
     job_title     |-> job_titles,
     has_manager   |-> BOOLEAN,
     days_ago      |-> 0..MaxOrderAgeDays,
     ship_present  |-> BOOLEAN,
     ship_days     |-> 1..MaxShipDays,
     status_coin   |-> {1, 2},
     num_products  |-> 1..MaxProductsPerOrder,
     quantity      |-> 1..MaxQuantity,
     discount      |-> 0..MaxDiscountFrac,
     shipping_cost |-> 0..MaxShippingCost]

IsProfile(dr) == \A f \in DOMAIN FullDraws : dr[f] # {} /\ dr[f] \subseteq FullDraws[f]

\* generate_all_data: both address counts, both kinds of job title, both
\* outcomes of the manager coin; one value for every other draw
PipelineDraws ==
    [segment       |-> {"Regular"},
     annual_income |-> {500000},
     num_addresses |-> {1, 2},
     category      |-> {NumCategories},
     base_price    |-> {MinBasePrice},
     cost_factor   |-> {MinCostFactor},
     msrp_factor   |-> {MaxMsrpFactor},
     store_type    |-> {"Retail"},
     job_title     |-> {"Manager", "Cashier"},
     has_manager   |-> BOOLEAN,
     days_ago      |-> {3},
     ship_present  |-> {TRUE},
     ship_days     |-> {1},
     status_coin   |-> {1},
     num_products  |-> {MaxProductsPerOrder},
     quantity      |-> {MaxQuantity},
     discount      |-> {7},
     shipping_cost |-> {MaxShippingCost}]

\* generate_orders on given tables: the sample sizes below, at and above
\* the catalog size
OrdersDraws ==
    [PipelineDraws EXCEPT !.num_products = {1, 2, MaxProductsPerOrder}]

\* generate_orders' arithmetic: prices, quantities, discount fractions and
\* shipping costs whose amounts fall on, between and half-way between paisa
AmountDraws ==
    [PipelineDraws EXCEPT !.base_price = {MinBasePrice, 733},
                          !.quantity = {1, 3},
                          !.discount = {0, 1, 3, 8, MaxDiscountFrac},
                          !.shipping_cost = {499}]

\* generate_customers: every segment, incomes at the ends of the bands
CustomerDraws ==
    [PipelineDraws EXCEPT !.segment = customer_segments,
                          !.annual_income = {200000, 500000, 800000, 1500000,
                                             5000000, 15000000}]

\* generate_products: prices and factors at the ends of their ranges, and
\* inside them with rounded values on and off a tie
ProductDraws ==
    [PipelineDraws EXCEPT !.category = {1, NumCategories},
                          !.base_price = {MinBasePrice, 733, MaxBasePrice},
                          !.cost_factor = {MinCostFactor, 605, MaxCostFactor},
                          !.msrp_factor = {MinMsrpFactor, 1105, MaxMsrpFactor}]

\* generate_orders' dates: ship dates after, on and before today, or absent
StatusDraws ==
    [PipelineDraws EXCEPT !.days_ago = {0, 1, 3, MaxOrderAgeDays},
                          !.ship_present = BOOLEAN,
                          !.ship_days = {1, MaxShipDays},
                          !.status_coin = {1, 2},
                          !.num_products = {1}]

(* ------------------------------- Init --------------------------------- *)

\* the deployment script is not run
DeployIdle ==
    /\ deploy_pc = "idle"
    /\ deploy_error = NoError
    /\ answer = None
    /\ confirm = None
    /\ TOTAL_COMMITS = 0
    /\ START_DATE = None
    /\ END_DATE = None
    /\ COMMIT_MESSAGES = <<>>
    /\ existing = {}
    /\ git_available = FALSE
    /\ git_dir = FALSE
    /\ commit_counter = 0
    /\ stage = 0
    /\ git_commands = <<>>

\* the second call has not started; it is made on a day of days
NoRerun(days) ==
    rerun \in [today : days, order_locals : {None}, orders : {<<>>}]

\* days are counted from the day of the run; the second call is made on
\* the same day
OneDay ==
    /\ today = 0
    /\ NoRerun({today})

\* the second call is made on the same day or on a later one
TwoDays ==
    /\ today = 0
    /\ NoRerun(today..(today + MaxDaysApart))

EmptyTables ==
    /\ customers = <<>>
    /\ customer_addresses = <<>>
    /\ product_categories = <<>>
    /\ products = <<>>
    /\ stores = <<>>
    /\ employees = <<>>
    /\ orders = <<>>
    /\ order_details = <<>>
    /\ sales_data = <<>>

\* generate_all_data is entered with positive requested counts
Init ==
    /\ pc = "customers"
    /\ error = NoError
    /\ num_customers \in 1..MaxCustomers
    /\ num_products \in 1..MaxProducts
    /\ num_stores \in 1..MaxStores
    /\ num_employees \in 1..MaxEmployees
    /\ num_orders \in 1..MaxOrders
    /\ i = 1
    /\ address_id = 1
    /\ EmptyTables
    /\ files = {}
    /\ order_locals = None
    /\ sales_filepath = None
    /\ OneDay
    /\ DeployIdle

(* ------------------------- generate_customers ------------------------- *)

NewCustomer(id, segment, annual_income) ==
    [CUSTOMER_ID      |-> id,
     ANNUAL_INCOME    |-> annual_income,
     CUSTOMER_SEGMENT |-> segment]

generate_customers_iter(dr) ==
    /\ pc = "customers"
    /\ i <= num_customers
    /\ \E segment \in dr.segment :
         \E annual_income \in {x \in dr.annual_income : x \in IncomeBand(segment)} :
           customers' = Append(customers, NewCustomer(i, segment, annual_income))
    /\ i' = i + 1
    /\ UNCHANGED <<pc, error, counts, deploy_vars, today, sales_filepath, rerun, files, order_locals, address_id, customer_addresses,
                   product_categories, products, stores, employees, orders,
                   order_details, sales_data>>

generate_customers_return ==
    /\ pc = "customers"
    /\ i > num_customers
    /\ pc' = "addresses"
    /\ i' = 1
    /\ address_id' = 1
    /\ UNCHANGED <<error, counts, deploy_vars, today, sales_filepath, rerun, files, order_locals, tables>>

(* --------------------- generate_customer_addresses -------------------- *)

\* (mutant) every address is marked default
NewAddress_AllDefault(aid, customer, k) ==
    [ADDRESS_ID   |-> aid,
     CUSTOMER_ID  |-> customer.CUSTOMER_ID,
     ADDRESS_TYPE |-> IF k = 0 THEN "Primary" ELSE "Secondary",
     IS_DEFAULT   |-> TRUE]

NewAddress(aid, customer, k) ==
    [ADDRESS_ID   |-> aid,
     CUSTOMER_ID  |-> customer.CUSTOMER_ID,
     ADDRESS_TYPE |-> IF k = 0 THEN "Primary" ELSE "Secondary",
     IS_DEFAULT   |-> (k = 0)]

\* (mutant) address_id is not incremented inside the inner loop
AddressesOf_SameId(customer, aid, num_addresses) ==
    [k \in 1..num_addresses |-> NewAddress(aid, customer, k - 1)]

\* for i in range(num_addresses): addresses.append(...); address_id += 1
AddressesOf(customer, aid, num_addresses) ==
    [k \in 1..num_addresses |-> NewAddress(aid + (k - 1), customer, k - 1)]

\* one iteration of "for customer in customers"; i indexes customers
generate_customer_addresses_iter(dr) ==
    /\ pc = "addresses"
    /\ i <= Len(customers)
    /\ \E num_addresses \in dr.num_addresses :
         /\ customer_addresses' =
              customer_addresses \o AddressesOf(customers[i], address_id, num_addresses)
         /\ address_id' = address_id + num_addresses
    /\ i' = i + 1
    /\ UNCHANGED <<pc, error, counts, deploy_vars, today, sales_filepath, rerun, files, order_locals, customers, product_categories, products,
                   stores, employees, orders, order_details, sales_data>>

generate_customer_addresses_return ==
    /\ pc = "addresses"
    /\ i > Len(customers)
    /\ pc' = "categories"
    /\ UNCHANGED <<error, counts, deploy_vars, today, sales_filepath, rerun, files, order_locals, i, address_id, tables>>

(* ---------------------- generate_product_categories ------------------- *)

NewCategory(cat_id) == [CATEGORY_ID |-> cat_id, PARENT_CATEGORY_ID |-> None]

\* the loop over self.product_categories.items() has no draw: one step
generate_product_categories ==
    /\ pc = "categories"
    /\ product_categories' = [c \in 1..NumCategories |-> NewCategory(c)]
    /\ pc' = "products"
    /\ i' = 1
    /\ UNCHANGED <<error, counts, deploy_vars, today, sales_filepath, rerun, files, order_locals, address_id, customers, customer_addresses,
                   products, stores, employees, orders, order_details, sales_data>>

(* -------------------------- generate_products ------------------------- *)

\* (mutant) the cost is the base price itself
UnitCost_NoFactor(base_price, f) == base_price * FactorDen

\* unit_cost = base_price * random.uniform(0.6, 0.8), for the factor
\* f/FactorDen, in units of 1/FactorDen rupee
UnitCost(base_price, f) == base_price * f

\* msrp = base_price * random.uniform(1.1, 1.3), likewise
Msrp(base_price, f) == base_price * f

\* round(x, 2) of a price in units of 1/FactorDen rupee, in paisa.  The
\* factor is no exact float: the nearest paisa, either one on a tie
RoundPrice(x) == RoundNear(x, FactorDen \div 100)

\* (mutant) the category key is off by one
NewProduct_CategoryOffByOne(id, category_id, base_price, unit_cost, msrp) ==
    [PRODUCT_ID  |-> id,
     CATEGORY_ID |-> category_id + 1,
     UNIT_COST   |-> unit_cost,
     UNIT_PRICE  |-> base_price * 100,
     MSRP        |-> msrp]

\* unit_price = base_price; 'UNIT_PRICE': round(unit_price, 2), in paisa;
\* unit_cost and msrp are the rounded values, in paisa
NewProduct(id, category_id, base_price, unit_cost, msrp) ==
    [PRODUCT_ID  |-> id,
     CATEGORY_ID |-> category_id,
     UNIT_COST   |-> unit_cost,
     UNIT_PRICE  |-> base_price * 100,
     MSRP        |-> msrp]

generate_products_iter(dr) ==
    /\ pc = "products"
    /\ i <= num_products
    /\ \E category_id \in dr.category, base_price \in dr.base_price,
          cost_factor \in dr.cost_factor, msrp_factor \in dr.msrp_factor :
         \E unit_cost \in RoundPrice(UnitCost(base_price, cost_factor)),
            msrp \in RoundPrice(Msrp(base_price, msrp_factor)) :
           products' =
             Append(products, NewProduct(i, category_id, base_price, unit_cost, msrp))
    /\ i' = i + 1
    /\ UNCHANGED <<pc, error, counts, deploy_vars, today, sales_filepath, rerun, files, order_locals, address_id, customers, customer_addresses,
                   product_categories, stores, employees, orders, order_details,
                   sales_data>>

generate_products_return ==
    /\ pc = "products"
    /\ i > num_products
    /\ pc' = "stores"
    /\ i' = 1
    /\ UNCHANGED <<error, counts, deploy_vars, today, sales_filepath, rerun, files, order_locals, address_id, tables>>

(* --------------------------- generate_stores -------------------------- *)

NewStore(id, store_type) ==
    [STORE_ID   |-> id,
     MANAGER_ID |-> None,
     STORE_TYPE |-> store_type]

generate_stores_iter(dr) ==
    /\ pc = "stores"
    /\ i <= num_stores
    /\ \E store_type \in dr.store_type :
         stores' = Append(stores, NewStore(i, store_type))
    /\ i' = i + 1
    /\ UNCHANGED <<pc, error, counts, deploy_vars, today, sales_filepath, rerun, files, order_locals, address_id, customers, customer_addresses,
                   product_categories, products, employees, orders, order_details,
                   sales_data>>

generate_stores_return ==
    /\ pc = "stores"
    /\ i > num_stores
    /\ pc' = "employees"
    /\ i' = 1
    /\ UNCHANGED <<error, counts, deploy_vars, today, sales_filepath, rerun, files, order_locals, address_id, tables>>

(* -------------------------- generate_employees ------------------------ *)

\* (mutant) the exception is caught and the tables built so far returned
Raise_Caught(exc, line) ==
    /\ pc' = "done"
    /\ error' = <<exc, line>>
    /\ UNCHANGED <<counts, deploy_vars, today, sales_filepath, rerun, files, order_locals, i, address_id, tables>>

\* An uncaught exception ends generate_all_data: nothing is returned
Raise(exc, line) ==
    /\ pc' = "failed"
    /\ error' = <<exc, line>>
    /\ UNCHANGED <<counts, deploy_vars, today, sales_filepath, rerun, files, order_locals, i, address_id, tables>>

\* The positions of the rows of a table, in order
Indices(s) == [k \in 1..Len(s) |-> k]

\* (mutant) an employee is created with a manager: its own id
NewEmployee_ManagedAtCreation(id, job_title, store_id) ==
    [EMPLOYEE_ID |-> id,
     JOB_TITLE   |-> job_title,
     STORE_ID    |-> store_id,
     MANAGER_ID  |-> Some(id)]

NewEmployee(id, job_title, store_id) ==
    [EMPLOYEE_ID |-> id,
     JOB_TITLE   |-> job_title,
     STORE_ID    |-> store_id,
     MANAGER_ID  |-> None]

\* one iteration of the creation loop; random.choice(stores) raises
\* IndexError on an empty list
generate_employees_iter(dr) ==
    /\ pc = "employees"
    /\ i <= num_employees
    /\ IF stores = <<>>
       THEN Raise("IndexError", 285)
       ELSE /\ \E job_title \in dr.job_title, s \in 1..Len(stores) :
                 employees' =
                   Append(employees, NewEmployee(i, job_title, stores[s].STORE_ID))
            /\ i' = i + 1
            /\ UNCHANGED <<pc, error, counts, deploy_vars, today, sales_filepath, rerun, files, order_locals, address_id, customers,
                           customer_addresses, product_categories, products,
                           stores, orders, order_details, sales_data>>

\* the creation loop is over: managers and non_managers are computed
generate_employees_created ==
    /\ pc = "employees"
    /\ i > num_employees
    /\ pc' = "assign_managers"
    /\ i' = 1
    /\ UNCHANGED <<error, counts, deploy_vars, today, sales_filepath, rerun, files, order_locals, address_id, tables>>

\* (mutant) every employee counts as a manager
managers_AllEmployees == Indices(employees)

\* managers = [e for e in employees if 'Manager' in e['JOB_TITLE']]
managers ==
    SelectSeq(Indices(employees), LAMBDA k : IsManagerTitle(employees[k].JOB_TITLE))
\* non_managers = [e for e in employees if 'Manager' not in e['JOB_TITLE']]
non_managers ==
    SelectSeq(Indices(employees), LAMBDA k : ~IsManagerTitle(employees[k].JOB_TITLE))

\* one iteration of "for emp in non_managers"; i indexes non_managers.
\* random.choice(managers) raises IndexError when there is no manager
assign_managers_iter(dr) ==
    /\ pc = "assign_managers"
    /\ i <= Len(non_managers)
    /\ \E has_manager \in dr.has_manager :
         IF ~has_manager
         THEN /\ i' = i + 1
              /\ UNCHANGED <<pc, error, counts, deploy_vars, today, sales_filepath, rerun, files, order_locals, address_id, tables>>
         ELSE IF managers = <<>>
         THEN Raise("IndexError", 316)
         ELSE /\ \E m \in 1..Len(managers) :
                   employees' =
                     [employees EXCEPT ![non_managers[i]].MANAGER_ID =
                                          Some(employees[managers[m]].EMPLOYEE_ID)]
              /\ i' = i + 1
              /\ UNCHANGED <<pc, error, counts, deploy_vars, today, sales_filepath, rerun, files, order_locals, address_id, customers,
                             customer_addresses, product_categories, products,
                             stores, orders, order_details, sales_data>>

assign_managers_done ==
    /\ pc = "assign_managers"
    /\ i > Len(non_managers)
    /\ pc' = "store_managers"
    /\ i' = 1
    /\ UNCHANGED <<error, counts, deploy_vars, today, sales_filepath, rerun, files, order_locals, address_id, tables>>

\* (mutant) the managers of every store
store_employees_AnyStore(store) ==
    SelectSeq(Indices(employees),
              LAMBDA k : IsManagerTitle(employees[k].JOB_TITLE))

\* [e for e in employees if e['STORE_ID'] == store['STORE_ID']
\*                         and 'Manager' in e['JOB_TITLE']]
store_employees(store) ==
    SelectSeq(Indices(employees),
              LAMBDA k : /\ employees[k].STORE_ID = store.STORE_ID
                         /\ IsManagerTitle(employees[k].JOB_TITLE))

\* (mutant) the store's row is rebuilt around the new MANAGER_ID
store_managers_iter_RebuildsRow ==
    /\ pc = "store_managers"
    /\ i <= Len(stores)
    /\ LET se == store_employees(stores[i])
       IN  IF se = <<>>
           THEN UNCHANGED stores
           ELSE \E m \in 1..Len(se) :
                  stores' = [stores EXCEPT ![i] =
                               [NewStore(stores[i].STORE_ID, "Mall")
                                  EXCEPT !.MANAGER_ID =
                                           Some(employees[se[m]].EMPLOYEE_ID)]]
    /\ i' = i + 1
    /\ UNCHANGED <<pc, error, counts, deploy_vars, today, sales_filepath, rerun, files, order_locals, address_id, customers, customer_addresses,
                   product_categories, products, employees, orders, order_details,
                   sales_data>>

\* one iteration of "for store in stores"; i indexes stores
store_managers_iter ==
    /\ pc = "store_managers"
    /\ i <= Len(stores)
    /\ LET se == store_employees(stores[i])
       IN  IF se = <<>>
           THEN UNCHANGED stores
           ELSE \E m \in 1..Len(se) :
                  stores' = [stores EXCEPT ![i].MANAGER_ID =
                                                Some(employees[se[m]].EMPLOYEE_ID)]
    /\ i' = i + 1
    /\ UNCHANGED <<pc, error, counts, deploy_vars, today, sales_filepath, rerun, files, order_locals, address_id, customers, customer_addresses,
                   product_categories, products, employees, orders, order_details,
                   sales_data>>

generate_employees_return ==
    /\ pc = "store_managers"
    /\ i > Len(stores)
    /\ pc' = "orders"
    /\ i' = 1
    /\ UNCHANGED <<error, counts, deploy_vars, today, sales_filepath, rerun, files, order_locals, address_id, tables>>

(* --------------------------- generate_orders -------------------------- *)

\* line_amount = unit_price * quantity * (1 - discount_percent), in units;
\* unit_price in paisa, discount_percent = d/FracDen
LineAmount(unit_price, quantity, d) ==
    unit_price * quantity * (FracDen - d)

\* (mutant) the quantity is left out of the line discount
LineDiscount_PerUnit(unit_price, quantity, d) ==
    unit_price * d

\* unit_price * quantity * discount_percent, in units
LineDiscount(unit_price, quantity, d) ==
    unit_price * quantity * d

\* round(discount_percent * 100, 2), in hundredths of a percent
DiscountPercent(d) == Round(d * 10000, FracDen)

\* tax_amount = total_amount * 0.15; a whole number of units, as every
\* unit price is a whole number of rupees
TaxAmount(total_amount) ==
    (total_amount \div 100) * TaxPercent + ((total_amount % 100) * TaxPercent) \div 100

\* (mutant) the shipping cost is left out of the final amount
FinalAmount_NoShipping(total_amount, tax_amount, shipping_cost, discount_amount) ==
    total_amount + tax_amount - discount_amount

\* final_amount = total_amount + tax_amount + shipping_cost - discount_amount
FinalAmount(total_amount, tax_amount, shipping_cost, discount_amount) ==
    total_amount + tax_amount + shipping_cost * UnitsPerRupee - discount_amount

\* the row order_details.append(...) adds for one product
LineRow(order_id, product, quantity, d) ==
    [ORDER_ID          |-> order_id,
     PRODUCT_ID        |-> product.PRODUCT_ID,
     QUANTITY_ORDERED  |-> quantity,
     UNIT_PRICE        |-> product.UNIT_PRICE,
     DISCOUNT_PERCENT  |-> DiscountPercent(d),
     TOTAL_LINE_AMOUNT |->
       Round(LineAmount(product.UNIT_PRICE, quantity, d), UnitsPerPaisa)]

\* "for product in order_products": the rows appended, in order
OrderLineRows(order_id, order_products, qd) ==
    [k \in 1..Len(order_products) |->
       LineRow(order_id, order_products[k], qd[k][1], qd[k][2])]

\* (mutant) total_amount is not reset: it starts at the previous order's
TotalAmount_NotReset(order_products, qd) ==
    (IF orders = <<>> THEN 0
     ELSE orders[Len(orders)].TOTAL_AMOUNT * UnitsPerPaisa)
    + SumSeq([k \in 1..Len(order_products) |->
                LineAmount(order_products[k].UNIT_PRICE, qd[k][1], qd[k][2])])

\* total_amount after the loop: it starts at 0 for each order
TotalAmount(order_products, qd) ==
    SumSeq([k \in 1..Len(order_products) |->
              LineAmount(order_products[k].UNIT_PRICE, qd[k][1], qd[k][2])])

\* discount_amount after the loop
DiscountAmount(order_products, qd) ==
    SumSeq([k \in 1..Len(order_products) |->
              LineDiscount(order_products[k].UNIT_PRICE, qd[k][1], qd[k][2])])

\* order_date = datetime.now().date() - timedelta(days=random.randint(0, 730))
OrderDate(now, days_ago) == now - days_ago

\* ship_date = order_date + timedelta(...) if random.random() < 0.8 else None
ShipDate(order_date, ship_present, ship_days) ==
    IF ship_present THEN Some(order_date + ship_days) ELSE None

\* (mutant) a ship date of today counts as past
OrderStatus_TodayIsPast(ship_date, now, coin) ==
    IF IsSome(ship_date) /\ Get(ship_date) <= now
    THEN (IF coin = 1 THEN "Delivered" ELSE "Shipped")
    ELSE IF IsSome(ship_date)
    THEN "Shipped"
    ELSE (IF coin = 1 THEN "Pending" ELSE "Processing")

\* the order status rule; now is datetime.now().date(), coin picks within
\* random.choice([a, b])
OrderStatus(ship_date, now, coin) ==
    IF IsSome(ship_date) /\ Get(ship_date) < now
    THEN (IF coin = 1 THEN "Delivered" ELSE "Shipped")
    ELSE IF IsSome(ship_date)
    THEN "Shipped"
    ELSE (IF coin = 1 THEN "Pending" ELSE "Processing")

PaymentStatus(order_status) ==
    IF order_status \in {"Delivered", "Shipped"} THEN "Completed" ELSE "Pending"

\* (mutant) the employee is drawn from all employees, whatever the store
EmployeesOfStore_AnyStore(store) == employees

\* [e for e in employees if e['STORE_ID'] == store['STORE_ID']]
EmployeesOfStore(store) ==
    SelectSeq(employees, LAMBDA e : e.STORE_ID = store.STORE_ID)

\* random.sample(products, min(num_products, len(products)))
SampleSize(num_products_drawn) == Min2(num_products_drawn, Len(products))

NewOrder(id, customer, store, employee, order_date, ship_date, order_status, total, tax, shipping_cost, discount, final) ==
    [ORDER_ID        |-> id,
     CUSTOMER_ID     |-> customer.CUSTOMER_ID,
     STORE_ID        |-> store.STORE_ID,
     EMPLOYEE_ID     |-> employee.EMPLOYEE_ID,
     ORDER_DATE      |-> order_date,
     SHIP_DATE       |-> ship_date,
     ORDER_STATUS    |-> order_status,
     SHIPPING_ADDRESS_ID |-> None,
     TOTAL_AMOUNT    |-> total,
     TAX_AMOUNT      |-> tax,
     SHIPPING_COST   |-> shipping_cost * 100,
     DISCOUNT_AMOUNT |-> discount,
     FINAL_AMOUNT    |-> final,
     PAYMENT_STATUS  |-> PaymentStatus(order_status)]

\* generate_orders' locals at the end of "for product in order_products",
\* for a call made on day now
OrderLocals(now, customer, store, employee, days_ago, ship_present, ship_days, coin, order_products, qd, shipping_cost) ==
    LET order_date == OrderDate(now, days_ago)
        ship_date == ShipDate(order_date, ship_present, ship_days)
    IN  [customer        |-> customer,
         store           |-> store,
         employee        |-> employee,
         order_date      |-> order_date,
         ship_date       |-> ship_date,
         order_status    |-> OrderStatus(ship_date, now, coin),
         total_amount    |-> TotalAmount(order_products, qd),
         shipping_cost   |-> shipping_cost,
         discount_amount |-> DiscountAmount(order_products, qd)]

\* the row orders.append(...) adds, given the locals and the two amounts
\* computed in floating point
OrderRow(id, l, tax, final) ==
    NewOrder(id, l.customer, l.store, l.employee,
             l.order_date, l.ship_date, l.order_status,
             Round(l.total_amount, UnitsPerPaisa), tax,
             l.shipping_cost,
             Round(l.discount_amount, UnitsPerPaisa), final)

\* the first part of one iteration of "for i in range(1, num_orders + 1)",
\* up to the end of "for product in order_products": the lines of order i
\* are appended.  random.choice raises IndexError on an empty list:
\* customers, stores, or the employees of the chosen store
generate_orders_lines(dr) ==
    /\ pc = "orders"
    /\ i <= num_orders
    /\ order_locals = None
    /\ IF customers = <<>>
       THEN Raise("IndexError", 332)
       ELSE IF stores = <<>>
       THEN Raise("IndexError", 333)
       ELSE \E c \in 1..Len(customers), s \in 1..Len(stores) :
         LET candidates == EmployeesOfStore(stores[s])
         IN
         IF candidates = <<>>
         THEN Raise("IndexError", 334)
         ELSE
         \E e \in 1..Len(candidates),
            days_ago \in dr.days_ago,
            ship_present \in dr.ship_present,
            ship_days \in dr.ship_days,
            coin \in dr.status_coin,
            num_products_drawn \in dr.num_products,
            shipping_cost \in dr.shipping_cost :
           LET n == SampleSize(num_products_drawn)
           IN
           \E sel \in Injections(n, Len(products)),
              qd \in [1..n -> dr.quantity \X dr.discount] :
             LET order_products == [k \in 1..n |-> products[sel[k]]]
                 locals(now) ==
                   OrderLocals(now, customers[c], stores[s], candidates[e],
                               days_ago, ship_present, ship_days, coin,
                               order_products, qd, shipping_cost)
             IN
             /\ order_details' =
                  order_details \o OrderLineRows(i, order_products, qd)
             /\ order_locals' = Some(locals(today))
             /\ rerun' = [rerun EXCEPT !.order_locals = Some(locals(rerun.today))]
             /\ UNCHANGED <<pc, error, counts, deploy_vars, today, sales_filepath, files, i,
                            address_id, customers,
                            customer_addresses, product_categories, products,
                            stores, employees, orders, sales_data>>

\* the rest of the iteration: the totals, and orders.append(...)
generate_orders_append ==
    /\ pc = "orders"
    /\ order_locals # None
    /\ LET l == Get(order_locals)
           tax_amount == TaxAmount(l.total_amount)
           final_amount ==
             FinalAmount(l.total_amount, tax_amount, l.shipping_cost, l.discount_amount)
       IN  \E tax \in RoundNear(tax_amount, UnitsPerPaisa),
              final \in RoundNear(final_amount, UnitsPerPaisa) :
             /\ orders' = Append(orders, OrderRow(i, l, tax, final))
             /\ rerun' =
                  [rerun EXCEPT
                     !.orders = Append(@, OrderRow(i, Get(rerun.order_locals), tax, final)),
                     !.order_locals = None]
    /\ order_locals' = None
    /\ i' = i + 1
    /\ UNCHANGED <<pc, error, counts, deploy_vars, today, sales_filepath, files, address_id,
                   customers,
                   customer_addresses, product_categories, products,
                   stores, employees, order_details, sales_data>>

generate_orders_return ==
    /\ pc = "orders"
    /\ i > num_orders
    /\ order_locals = None
    /\ pc' = "flatten"
    /\ i' = 1
    /\ UNCHANGED <<error, counts, deploy_vars, today, sales_filepath, rerun, files, order_locals, address_id, tables>>

(* ------------------- generate_all_data: sales_data -------------------- *)

\* (mutant) the last matching row
First_Last(hits) == IF hits = <<>> THEN None ELSE Some(hits[Len(hits)])

\* next((x for x in ... if ...), None), given the matching rows in order
First(hits) == IF hits = <<>> THEN None ELSE Some(hits[1])

SalesRow(order, order_detail) ==
    [ORDER_ID         |-> order.ORDER_ID,
     CUSTOMER_ID      |-> order.CUSTOMER_ID,
     PRODUCT_ID       |-> order_detail.PRODUCT_ID,
     STORE_ID         |-> order.STORE_ID,
     EMPLOYEE_ID      |-> order.EMPLOYEE_ID,
     ORDER_DATE       |-> order.ORDER_DATE,
     SHIP_DATE        |-> order.SHIP_DATE,
     QUANTITY_ORDERED |-> order_detail.QUANTITY_ORDERED,
     UNIT_PRICE       |-> order_detail.UNIT_PRICE,
     DISCOUNT_PERCENT |-> order_detail.DISCOUNT_PERCENT,
     TOTAL_AMOUNT     |-> order_detail.TOTAL_LINE_AMOUNT,
     ORDER_STATUS     |-> order.ORDER_STATUS]

\* one iteration of "for order in orders"; i indexes orders
sales_data_iter ==
    /\ pc = "flatten"
    /\ i <= Len(orders)
    /\ LET order == orders[i]
           order_detail ==
             First(SelectSeq(order_details,
                             LAMBDA od : od.ORDER_ID = order.ORDER_ID))
       IN  IF order_detail = None
           THEN UNCHANGED sales_data
           ELSE LET customer ==
                      First(SelectSeq(customers,
                                      LAMBDA x : x.CUSTOMER_ID = order.CUSTOMER_ID))
                    product ==
                      First(SelectSeq(products,
                                      LAMBDA x : x.PRODUCT_ID =
                                                   Get(order_detail).PRODUCT_ID))
                    store ==
                      First(SelectSeq(stores,
                                      LAMBDA x : x.STORE_ID = order.STORE_ID))
                    employee ==
                      First(SelectSeq(employees,
                                      LAMBDA x : x.EMPLOYEE_ID = order.EMPLOYEE_ID))
                IN  IF None \in {customer, product, store, employee}
                    THEN UNCHANGED sales_data
                    ELSE sales_data' =
                           Append(sales_data, SalesRow(order, Get(order_detail)))
    /\ i' = i + 1
    /\ UNCHANGED <<pc, error, counts, deploy_vars, today, sales_filepath, rerun, files, order_locals, address_id, customers, customer_addresses,
                   product_categories, products, stores, employees, orders,
                   order_details>>

generate_all_data_return ==
    /\ pc = "flatten"
    /\ i > Len(orders)
    /\ pc' = "done"
    /\ UNCHANGED <<error, counts, deploy_vars, today, sales_filepath, rerun, files, order_locals, i, address_id, tables>>

(* ------------------------ main: export_to_csv ------------------------- *)

\* the dictionary generate_all_data returns
data ==
    [customers          |-> customers,
     customer_addresses |-> customer_addresses,
     product_categories |-> product_categories,
     products           |-> products,
     stores             |-> stores,
     employees          |-> employees,
     orders             |-> orders,
     order_details      |-> order_details,
     sales_data         |-> sales_data]

\* (mutant) pakistan_sales_data.csv is written only with the other files
ExportedFiles_NonEmptyOnly == {t \in DOMAIN data : data[t] # <<>>}

\* the files export_to_csv writes: "for table_name, table_data in
\* data.items(): if table_data:", then the sales data file
ExportedFiles == {t \in DOMAIN data : data[t] # <<>>} \cup {"sales_data"}

\* main calls export_to_csv(data, output_dir) once generate_all_data has
\* returned: one file pakistan_<table>.csv per non-empty table, then
\* pakistan_sales_data.csv in any case.  A file is named by its table
export_to_csv ==
    /\ pc = "done"
    /\ files' = ExportedFiles
    /\ sales_filepath' = Some("sales_data")
    /\ pc' = "exported"
    /\ UNCHANGED <<error, counts, deploy_vars, today, rerun, order_locals, i, address_id, tables>>

(* --------------------------- specifications --------------------------- *)

NextWith(dr) ==
    \/ generate_customers_iter(dr)
    \/ generate_customers_return
    \/ generate_customer_addresses_iter(dr)
    \/ generate_customer_addresses_return
    \/ generate_product_categories
    \/ generate_products_iter(dr)
    \/ generate_products_return
    \/ generate_stores_iter(dr)
    \/ generate_stores_return
    \/ generate_employees_iter(dr)
    \/ generate_employees_created
    \/ assign_managers_iter(dr)
    \/ assign_managers_done
    \/ store_managers_iter
    \/ generate_employees_return
    \/ generate_orders_lines(dr)
    \/ generate_orders_append
    \/ generate_orders_return
    \/ sales_data_iter
    \/ generate_all_data_return
    \/ export_to_csv

Next == NextWith(PipelineDraws)

\* main: generate_all_data, from its call to its return or to an
\* exception, and the export of what it returned
Spec == Init /\ [][Next]_vars

\* the same run, which goes on as long as it has a statement to execute
SpecFair == Init /\ [][Next]_vars /\ WF_vars(Next)

\* generate_orders is called with tables the other generators can return:
\* ids 1..n, every employee at one of the stores given
InitGenerateOrders(dr, max_customers, max_stores, min_employees, max_employees, min_products, max_products, max_orders, same_day) ==
    /\ pc = "orders"
    /\ error = NoError
    /\ i = 1
    /\ address_id = 1
    /\ customers \in {[k \in 1..n |-> NewCustomer(k, "Regular", 500000)] : n \in 1..max_customers}
    /\ stores \in {[k \in 1..n |-> NewStore(k, "Retail")] : n \in 1..max_stores}
    /\ employees \in
         UNION {{[k \in 1..n |-> NewEmployee(k, "Cashier", f[k])] :
                   f \in [1..n -> 1..Len(stores)]} :
                n \in min_employees..max_employees}
    /\ products \in
         UNION {{[k \in 1..n |->
                    NewProduct(k, NumCategories, price[k],
                               Round(UnitCost(price[k], MinCostFactor), FactorDen \div 100),
                               Round(Msrp(price[k], MaxMsrpFactor), FactorDen \div 100))] :
                   price \in [1..n -> dr.base_price]} :
                n \in min_products..max_products}
    /\ num_customers = Len(customers)
    /\ num_stores = Len(stores)
    /\ num_employees = Len(employees)
    /\ num_products = Len(products)
    /\ num_orders \in 1..max_orders
    /\ customer_addresses = <<>>
    /\ product_categories = <<>>
    /\ orders = <<>>
    /\ order_details = <<>>
    /\ sales_data = <<>>
    /\ files = {}
    /\ order_locals = None
    /\ sales_filepath = None
    /\ IF same_day THEN OneDay ELSE TwoDays
    /\ DeployIdle

NextOrdersWith(dr) ==
    \/ generate_orders_lines(dr)
    \/ generate_orders_append
    \/ generate_orders_return

InitOrders ==
    InitGenerateOrders(OrdersDraws, MaxCustomers, MaxStores, 0, MaxEmployees,
                       0, MaxProducts, MaxOrders, TRUE)

NextOrders == NextOrdersWith(OrdersDraws)

\* generate_orders, for any tables passed in
SpecOrders == InitOrders /\ [][NextOrders]_vars

InitAmounts ==
    InitGenerateOrders(AmountDraws, 1, 1, 1, 1, 1, MaxProducts, MaxOrders, TRUE)

NextAmounts == NextOrdersWith(AmountDraws)

\* generate_orders' amounts, for one customer, store and employee
SpecAmounts == InitAmounts /\ [][NextAmounts]_vars

\* generate_customers alone
InitCustomers ==
    /\ pc = "customers"
    /\ error = NoError
    /\ num_customers \in 1..MaxCustomers
    /\ num_products = 1
    /\ num_stores = 1
    /\ num_employees = 1
    /\ num_orders = 1
    /\ i = 1
    /\ address_id = 1
    /\ EmptyTables
    /\ files = {}
    /\ order_locals = None
    /\ sales_filepath = None
    /\ OneDay
    /\ DeployIdle

NextCustomers ==
    \/ generate_customers_iter(CustomerDraws)
    \/ generate_customers_return

SpecCustomers == InitCustomers /\ [][NextCustomers]_vars

\* generate_products alone, after generate_product_categories
InitProducts ==
    /\ pc = "products"
    /\ error = NoError
    /\ num_customers = 0
    /\ num_products \in 1..MaxProducts
    /\ num_stores = 1
    /\ num_employees = 1
    /\ num_orders = 1
    /\ i = 1
    /\ address_id = 1
    /\ customers = <<>>
    /\ customer_addresses = <<>>
    /\ product_categories = [c \in 1..NumCategories |-> NewCategory(c)]
    /\ products = <<>>
    /\ stores = <<>>
    /\ employees = <<>>
    /\ orders = <<>>
    /\ order_details = <<>>
    /\ sales_data = <<>>
    /\ files = {}
    /\ order_locals = None
    /\ sales_filepath = None
    /\ OneDay
    /\ DeployIdle

NextProducts ==
    \/ generate_products_iter(ProductDraws)
    \/ generate_products_return

SpecProducts == InitProducts /\ [][NextProducts]_vars

InitStatus == InitGenerateOrders(StatusDraws, 1, 1, 1, 1, 1, 1, MaxOrders, TRUE)

NextStatus == NextOrdersWith(StatusDraws)

\* generate_orders' dates and statuses, for one customer, store, employee
\* and product
SpecStatus == InitStatus /\ [][NextStatus]_vars

InitDeterminism ==
    InitGenerateOrders(StatusDraws, 1, 1, 1, 1, 1, 1, MaxOrders, FALSE)

\* two calls of generate_orders with the same arguments and the same
\* draws, for one customer, store, employee and product
SpecDeterminism == InitDeterminism /\ [][NextStatus]_vars

\* the requested counts of a call that may pass non-positive ones
ConfigCounts == (0 - 1)..MaxConfigCount

\* generate_all_data is entered with any requested counts
InitConfig ==
    /\ pc = "customers"
    /\ error = NoError
    /\ num_customers \in ConfigCounts
    /\ num_products \in ConfigCounts
    /\ num_stores \in ConfigCounts
    /\ num_employees \in ConfigCounts
    /\ num_orders \in ConfigCounts
    /\ i = 1
    /\ address_id = 1
    /\ EmptyTables
    /\ files = {}
    /\ order_locals = None
    /\ sales_filepath = None
    /\ OneDay
    /\ DeployIdle

\* main, for any requested counts
SpecConfig == InitConfig /\ [][Next]_vars

(* ------------------- sct.py: the deployment script -------------------- *)

\* COMMITS in github.env is at most this
MaxTotalCommits == 10
\* START_DATE and END_DATE in github.env are at most this many days after
\* 2020-08-01, which is day 0
MaxSpanDays == 2
\* END_DATE's default, 2020-08-28
DefaultEndDay == 27

SecondsPerDay == 86400
MicrosPerSecond == 1000000

\* get_project_files_structure()
PROJECT_STRUCTURE ==
    [core_files       |-> <<"README.md", "PROJECT_COMPLETE_SUMMARY.md",
                            "COMPLETE_DEPLOYMENT_GUIDE.md", "requirements.txt",
                            "streamlit_requirements.txt">>,
     snowflake_config |-> <<"snowflake.toml", "config.txt", "account.txt">>,
     data_files       |-> <<"pakistan_sales_data/pakistan_customers.csv",
                            "pakistan_sales_data/pakistan_products.csv",
                            "pakistan_sales_data/pakistan_orders.csv",
                            "pakistan_sales_data/pakistan_order_details.csv",
                            "pakistan_sales_data/pakistan_stores.csv",
                            "pakistan_sales_data/pakistan_employees.csv",
                            "pakistan_sales_data/pakistan_product_categories.csv",
                            "pakistan_sales_data/pakistan_customer_addresses.csv",
                            "pakistan_sales_data/pakistan_sales_data.csv">>,
     oltp_scripts     |-> <<"oltp/01_oltp_database_setup.sql",
                            "oltp/02_data_loading_oltp.sql">>,
     olap_scripts     |-> <<"olap/03_olap_data_warehouse_setup.sql",
                            "olap/04_etl_oltp_to_olap.sql">>,
     python_scripts   |-> <<"generate_pakistan_sales_data.py",
                            "streamlit_dashboard.py">>]

\* the categories create_realistic_commits commits, in its order, which is
\* also the order of PROJECT_STRUCTURE.values()
Categories ==
    <<"core_files", "snowflake_config", "data_files", "oltp_scripts",
      "olap_scripts", "python_scripts">>

\* the -m argument of each category's commit; the emoji each message
\* starts with is left out
CategoryMessage ==
    [core_files       |-> "Added comprehensive project documentation",
     snowflake_config |-> "Configured Snowflake connection profiles and settings",
     data_files       |-> "Added Pakistan sales data CSV files",
     oltp_scripts     |-> "Created OLTP database schema and setup scripts",
     olap_scripts     |-> "Built OLAP data warehouse structure",
     python_scripts   |-> "Added Python scripts for data generation and dashboard"]

InitialMessage == "Initial Snowflake sales data analysis project setup"
RemainingMessage == "Added remaining project files and configurations"

\* [f for category in PROJECT_STRUCTURE.values() for f in category]
StructureFiles ==
    PROJECT_STRUCTURE.core_files \o PROJECT_STRUCTURE.snowflake_config
    \o PROJECT_STRUCTURE.data_files \o PROJECT_STRUCTURE.oltp_scripts
    \o PROJECT_STRUCTURE.olap_scripts \o PROJECT_STRUCTURE.python_scripts

Elements(s) == {s[k] : k \in DOMAIN s}

\* load_commit_messages() without commit_messages.txt
DefaultCommitMessages ==
    <<"Initial Snowflake sales data analysis project setup",
      "Added Pakistan sales data CSV files",
      "Created OLTP database schema and setup scripts",
      "Implemented ETL pipeline from OLTP to OLAP",
      "Built OLAP data warehouse structure",
      "Added comprehensive project documentation",
      "Configured Snowflake connection profiles",
      "Created Streamlit dashboard for data visualization",
      "Added data generation scripts for testing",
      "Finalized deployment and configuration",
      "Updated README and deployment guides",
      "Refactored SQL scripts for better performance",
      "Fixed data loading and transformation issues",
      "Optimized warehouse and database configurations",
      "Enhanced data analysis and reporting capabilities">>

\* load_commit_messages(): the non-blank lines of commit_messages.txt, or
\* the defaults
LoadedCommitMessages == {DefaultCommitMessages, <<"wip">>, <<"fix", "more fixes">>}

\* the sets of project files that may be on disk
ExistingFiles ==
    {{}, Elements(StructureFiles),
     {"README.md", "requirements.txt", "oltp/02_data_loading_oltp.sql"}}

REMOTE_URL == "https://github.com/SiddiqueDataEng/snowflake_salesdata_pak.git"

\* what the user may type at the prompt, character by character
Answers ==
    {<<>>, <<"y">>, <<"Y">>, <<"n">>, <<"N", "o">>, <<"y", "e", "s">>,
     <<" ", "Y", "E", "S", "\t">>, <<"y", "e", "s", "!">>, <<"y", " ", "e", "s">>}

\* str.lower(), on the characters of Answers
LowerChar(c) ==
    CASE c = "Y" -> "y"
      [] c = "E" -> "e"
      [] c = "S" -> "s"
      [] c = "N" -> "n"
      [] OTHER -> c

Lower(str) == [k \in 1..Len(str) |-> LowerChar(str[k])]

Whitespace == {" ", "\t"}

RECURSIVE LStrip(_)
LStrip(str) ==
    IF str # <<>> /\ Head(str) \in Whitespace THEN LStrip(Tail(str)) ELSE str

RECURSIVE RStrip(_)
RStrip(str) ==
    IF str # <<>> /\ str[Len(str)] \in Whitespace
    THEN RStrip(SubSeq(str, 1, Len(str) - 1))
    ELSE str

\* str.strip()
Strip(str) == RStrip(LStrip(str))

\* (mutant) anything but a refusal confirms
Confirmed_UnlessNo(c) == c \notin {<<"n">>, <<"n", "o">>}

\* not (confirm not in ['y', 'yes'])
Confirmed(c) == c \in {<<"y">>, <<"y", "e", "s">>}

\* datetime.strptime(str, "%Y-%m-%d") of a date given as a day number:
\* midnight of that day
Strptime(day) == [seconds |-> day * SecondsPerDay, microsecond |-> 0]

\* (mutant) the step is a TOTAL_COMMITS-th of the period
CommitDate_OverTotal(k) ==
    LET num == (END_DATE.seconds - START_DATE.seconds) * (k - 1)
        den == TOTAL_COMMITS
        us  == Round((num % den) * MicrosPerSecond, den)
    IN  [seconds     |-> START_DATE.seconds + (num \div den) + (us \div MicrosPerSecond),
         microsecond |-> us % MicrosPerSecond]

\* START_DATE + (END_DATE - START_DATE) * (k - 1) / (TOTAL_COMMITS - 1):
\* the division of a timedelta rounds to the nearest microsecond, half to
\* even; START_DATE and END_DATE are whole seconds
CommitDate(k) ==
    LET num == (END_DATE.seconds - START_DATE.seconds) * (k - 1)
        den == TOTAL_COMMITS - 1
        us  == Round((num % den) * MicrosPerSecond, den)
    IN  [seconds     |-> START_DATE.seconds + (num \div den) + (us \div MicrosPerSecond),
         microsecond |-> us % MicrosPerSecond]

\* commit_date.strftime("%Y-%m-%dT%H:%M:%S"), as <<day, hour, minute,
\* second>>: the microseconds are dropped
Strftime(date) ==
    <<date.seconds \div SecondsPerDay,
      (date.seconds % SecondsPerDay) \div 3600,
      (date.seconds % 3600) \div 60,
      date.seconds % 60>>

\* run_git_command(cmd): the command runs in the environment of the script
GitRun(cmd) == [cmd |-> cmd, env |-> None]

\* subprocess.run(["git", "commit", "-m", message], env=env), where env has
\* GIT_COMMITTER_DATE and GIT_AUTHOR_DATE set to date_str
GitCommit(message, date_str) ==
    [cmd |-> <<"git", "commit", "-m", message>>,
     env |-> Some([GIT_COMMITTER_DATE |-> date_str, GIT_AUTHOR_DATE |-> date_str])]

\* "for file in files_to_add: if os.path.exists(file): git add file"
AddExisting(files_to_add) ==
    LET found == SelectSeq(files_to_add, LAMBDA f : f \in existing)
    IN  [k \in 1..Len(found) |-> GitRun(<<"git", "add", found[k]>>)]

\* (mutant) the committed files are not removed from the list
remaining_files_NotRemoved == SelectSeq(StructureFiles, LAMBDA f : f \in existing)

\* remaining_files at line 337: the existing files of the structure, less
\* those that are in the structure
remaining_files ==
    SelectSeq(SelectSeq(StructureFiles, LAMBDA f : f \in existing),
              LAMBDA f : f \notin Elements(StructureFiles))

\* the generator is not run
GeneratorIdle ==
    /\ pc = "idle"
    /\ error = NoError
    /\ num_customers = 0
    /\ num_products = 0
    /\ num_stores = 0
    /\ num_employees = 0
    /\ num_orders = 0
    /\ i = 1
    /\ address_id = 1
    /\ EmptyTables
    /\ files = {}
    /\ order_locals = None
    /\ sales_filepath = None
    /\ OneDay

\* the module is loaded: the configuration of github.env or the defaults,
\* the commit messages, and the state of the working directory
InitDeploy ==
    /\ GeneratorIdle
    /\ deploy_pc = "prompt"
    /\ deploy_error = NoError
    /\ answer = None
    /\ confirm = None
    /\ TOTAL_COMMITS \in (0 - 1)..MaxTotalCommits
    /\ START_DATE \in {Strptime(d) : d \in 0..MaxSpanDays}
    /\ END_DATE \in {Strptime(d) : d \in 0..MaxSpanDays \cup {DefaultEndDay}}
    /\ COMMIT_MESSAGES \in LoadedCommitMessages
    /\ existing \in ExistingFiles
    /\ git_available \in BOOLEAN
    /\ git_dir \in BOOLEAN
    /\ commit_counter = 0
    /\ stage = 0
    /\ git_commands = <<>>

\* __main__ up to the confirmation: exit(0) unless the answer, lowered and
\* stripped, is y or yes
main_prompt ==
    /\ deploy_pc = "prompt"
    /\ \E raw \in Answers :
         /\ answer' = Some(raw)
         /\ confirm' = Some(Strip(Lower(raw)))
         /\ deploy_pc' = IF Confirmed(Strip(Lower(raw))) THEN "setup" ELSE "cancelled"
    /\ UNCHANGED <<deploy_error, deploy_config, git_dir, commit_counter, stage,
                   git_commands, generator_vars>>

\* ensure_repo_setup().  Without a git executable subprocess.run raises
\* FileNotFoundError: the one of "git remote remove" is swallowed, that of
\* "git init" or "git remote add" reaches main's handler
ensure_repo_setup ==
    /\ deploy_pc = "setup"
    /\ IF git_available
       THEN /\ git_commands' =
                 git_commands
                 \o (IF git_dir THEN <<>> ELSE <<GitRun(<<"git", "init">>)>>)
                 \o <<GitRun(<<"git", "remote", "remove", "origin">>),
                      GitRun(<<"git", "remote", "add", "origin", REMOTE_URL>>),
                      GitRun(<<"git", "branch", "-M", "main">>)>>
            /\ git_dir' = TRUE
            /\ deploy_pc' = "commit_initial"
            /\ UNCHANGED deploy_error
       ELSE /\ deploy_error' = <<"FileNotFoundError", 136>>
            /\ deploy_pc' = "failed"
            /\ UNCHANGED <<git_commands, git_dir>>
    /\ UNCHANGED <<answer, confirm, deploy_config, commit_counter, stage,
                   generator_vars>>

\* create_realistic_commits(), the first commit: everything, dated
\* START_DATE
commit_initial ==
    /\ deploy_pc = "commit_initial"
    /\ git_commands' =
         git_commands
         \o <<GitRun(<<"git", "add", ".">>),
              GitCommit(InitialMessage, Strftime(START_DATE))>>
    /\ commit_counter' = 2
    /\ stage' = 1
    /\ deploy_pc' = "commit_category"
    /\ UNCHANGED <<deploy_error, answer, confirm, deploy_config, git_dir,
                   generator_vars>>

\* one of the six blocks "if commit_counter <= TOTAL_COMMITS:", for the
\* category at stage; a division by zero would reach main's handler
commit_category ==
    /\ deploy_pc = "commit_category"
    /\ LET category == Categories[stage]
           adds == AddExisting(PROJECT_STRUCTURE[category])
       IN  IF commit_counter <= TOTAL_COMMITS
           THEN IF TOTAL_COMMITS - 1 = 0
                THEN /\ git_commands' = git_commands \o adds
                     /\ deploy_error' = <<"ZeroDivisionError", 195>>
                     /\ deploy_pc' = "failed"
                     /\ UNCHANGED <<commit_counter, stage>>
                ELSE /\ git_commands' =
                          git_commands \o adds
                          \o <<GitCommit(CategoryMessage[category],
                                         Strftime(CommitDate(commit_counter)))>>
                     /\ commit_counter' = commit_counter + 1
                     /\ stage' = stage + 1
                     /\ deploy_pc' = IF stage = Len(Categories)
                                     THEN "remaining" ELSE "commit_category"
                     /\ UNCHANGED deploy_error
           ELSE /\ stage' = stage + 1
                /\ deploy_pc' = IF stage = Len(Categories)
                                THEN "remaining" ELSE "commit_category"
                /\ UNCHANGED <<git_commands, commit_counter, deploy_error>>
    /\ UNCHANGED <<answer, confirm, deploy_config, git_dir, generator_vars>>

\* "if remaining_files and commit_counter <= TOTAL_COMMITS:"
commit_remaining ==
    /\ deploy_pc = "remaining"
    /\ IF remaining_files # <<>> /\ commit_counter <= TOTAL_COMMITS
       THEN /\ git_commands' =
                 git_commands \o AddExisting(remaining_files)
                 \o <<GitCommit(RemainingMessage,
                                Strftime(CommitDate(commit_counter)))>>
            /\ commit_counter' = commit_counter + 1
       ELSE UNCHANGED <<git_commands, commit_counter>>
    /\ deploy_pc' = "tags"
    /\ UNCHANGED <<deploy_error, answer, confirm, deploy_config, git_dir, stage,
                   generator_vars>>

\* the tags, and the return of create_realistic_commits
create_tags ==
    /\ deploy_pc = "tags"
    /\ git_commands' =
         git_commands
         \o (IF commit_counter > 1 THEN <<GitRun(<<"git", "tag", "v1.0.0">>)>> ELSE <<>>)
         \o (IF commit_counter > 3 THEN <<GitRun(<<"git", "tag", "v1.1.0">>)>> ELSE <<>>)
         \o (IF commit_counter > 5 THEN <<GitRun(<<"git", "tag", "v1.2.0">>)>> ELSE <<>>)
    /\ deploy_pc' = "push"
    /\ UNCHANGED <<deploy_error, answer, confirm, deploy_config, git_dir,
                   commit_counter, stage, generator_vars>>

\* push_to_github(), and the end of the script
push_to_github ==
    /\ deploy_pc = "push"
    /\ git_commands' =
         Append(git_commands,
                GitRun(<<"git", "push", "-u", "origin", "main", "--tags">>))
    /\ deploy_pc' = "deployed"
    /\ UNCHANGED <<deploy_error, answer, confirm, deploy_config, git_dir,
                   commit_counter, stage, generator_vars>>

NextDeploy ==
    \/ main_prompt
    \/ ensure_repo_setup
    \/ commit_initial
    \/ commit_category
    \/ commit_remaining
    \/ create_tags
    \/ push_to_github

\* the deployment script, from the prompt to its end
SpecDeploy == InitDeploy /\ [][NextDeploy]_vars

(* ------------------------------ claims ------------------------------- *)

Abs(x) == IF x < 0 THEN 0 - x ELSE x

\* the order lines with a given ORDER_ID, in table order
LinesOf(order_id) == SelectSeq(order_details, LAMBDA od : od.ORDER_ID = order_id)

\* generate_all_data has returned its dictionary
Returned == pc \in {"done", "exported"}
\* generate_orders has returned
OrdersReturned == pc \in {"flatten", "done", "exported"}

\* C1: after generate_orders every order's EMPLOYEE_ID is that of an
\* employee whose STORE_ID is the order's STORE_ID.
C1_EmployeeBelongsToOrderStore ==
    OrdersReturned =>
      \A k \in 1..Len(orders) :
        \E e \in 1..Len(employees) :
          /\ employees[e].EMPLOYEE_ID = orders[k].EMPLOYEE_ID
          /\ employees[e].STORE_ID = orders[k].STORE_ID

\* two orders of different stores, with employees at both stores
C1_Witness ==
    /\ OrdersReturned
    /\ Len(orders) = 2
    /\ orders[1].STORE_ID # orders[2].STORE_ID
    /\ Len(employees) = 2

\* C2: generate_orders never fails with an empty selection when it
\* chooses the order's employee (line 334), for any positive counts.
C2_NoEmptyEmployeeSelection == error # <<"IndexError", 334>>

\* C3: in the output of generate_all_data every foreign key references a
\* row of its parent table.
C3_ForeignKeysResolve ==
    Returned =>
      LET customer_ids == {customers[k].CUSTOMER_ID : k \in 1..Len(customers)}
          category_ids ==
            {product_categories[k].CATEGORY_ID : k \in 1..Len(product_categories)}
          product_ids == {products[k].PRODUCT_ID : k \in 1..Len(products)}
          store_ids == {stores[k].STORE_ID : k \in 1..Len(stores)}
          employee_ids == {employees[k].EMPLOYEE_ID : k \in 1..Len(employees)}
          order_ids == {orders[k].ORDER_ID : k \in 1..Len(orders)}
      IN  /\ \A k \in 1..Len(customer_addresses) :
                customer_addresses[k].CUSTOMER_ID \in customer_ids
          /\ \A k \in 1..Len(products) : products[k].CATEGORY_ID \in category_ids
          /\ \A k \in 1..Len(employees) :
                /\ employees[k].STORE_ID \in store_ids
                /\ IsSome(employees[k].MANAGER_ID) =>
                     Get(employees[k].MANAGER_ID) \in employee_ids
          /\ \A k \in 1..Len(stores) :
                IsSome(stores[k].MANAGER_ID) =>
                  Get(stores[k].MANAGER_ID) \in employee_ids
          /\ \A k \in 1..Len(orders) :
                /\ orders[k].CUSTOMER_ID \in customer_ids
                /\ orders[k].STORE_ID \in store_ids
                /\ orders[k].EMPLOYEE_ID \in employee_ids
          /\ \A k \in 1..Len(order_details) :
                /\ order_details[k].ORDER_ID \in order_ids
                /\ order_details[k].PRODUCT_ID \in product_ids

\* a returned run with both back-filled references set and several lines
C3_Witness ==
    /\ Returned
    /\ \E k \in 1..Len(employees) : IsSome(employees[k].MANAGER_ID)
    /\ \E k \in 1..Len(stores) : IsSome(stores[k].MANAGER_ID)
    /\ Len(orders) = 2
    /\ Len(order_details) = 4
    /\ Len(customer_addresses) = 3

\* C4: for every order FINAL_AMOUNT is TOTAL_AMOUNT - DISCOUNT_AMOUNT +
\* TAX_AMOUNT + SHIPPING_COST within 0.02 (2 paisa), and TAX_AMOUNT is 15%
\* of TOTAL_AMOUNT within 0.01.
C4_FinalAmountReconciles ==
    \A k \in 1..Len(orders) :
      LET o == orders[k]
      IN  /\ Abs(o.FINAL_AMOUNT
                 - (o.TOTAL_AMOUNT - o.DISCOUNT_AMOUNT + o.TAX_AMOUNT + o.SHIPPING_COST))
               <= 2
          /\ Abs(100 * o.TAX_AMOUNT - TaxPercent * o.TOTAL_AMOUNT) <= 100

\* an order whose stored fields do not add up exactly
C4_Witness ==
    \E k \in 1..Len(orders) :
      LET o == orders[k]
      IN  /\ o.FINAL_AMOUNT #
               o.TOTAL_AMOUNT - o.DISCOUNT_AMOUNT + o.TAX_AMOUNT + o.SHIPPING_COST
          /\ o.DISCOUNT_AMOUNT > 0
          /\ o.SHIPPING_COST > 0

\* the discount fractions d that can have produced a stored order line
FractionsOf(line) ==
    {d \in 0..MaxDiscountFrac :
       /\ line.DISCOUNT_PERCENT = DiscountPercent(d)
       /\ line.TOTAL_LINE_AMOUNT =
            Round(LineAmount(line.UNIT_PRICE, line.QUANTITY_ORDERED, d), UnitsPerPaisa)}

\* the discount fractions of a sequence of lines, one choice per line
RECURSIVE FractionChoices(_)
FractionChoices(lines) ==
    IF lines = <<>> THEN {<<>>}
    ELSE {<<d>> \o rest : d \in FractionsOf(lines[1]),
                          rest \in FractionChoices(Tail(lines))}

\* C5: for every order, TOTAL_AMOUNT is the (rounded) sum of the line
\* amounts, and DISCOUNT_AMOUNT the (rounded) sum of unit_price * quantity *
\* discount fraction, over exactly the lines with that ORDER_ID.
C5_AggregatesAreOwnLines ==
    \A k \in 1..Len(orders) :
      LET o == orders[k]
          lines == LinesOf(o.ORDER_ID)
      IN  \E ds \in FractionChoices(lines) :
            /\ o.TOTAL_AMOUNT =
                 Round(SumSeq([j \in 1..Len(lines) |->
                                 LineAmount(lines[j].UNIT_PRICE,
                                            lines[j].QUANTITY_ORDERED, ds[j])]),
                       UnitsPerPaisa)
            /\ o.DISCOUNT_AMOUNT =
                 Round(SumSeq([j \in 1..Len(lines) |->
                                 LineDiscount(lines[j].UNIT_PRICE,
                                              lines[j].QUANTITY_ORDERED, ds[j])]),
                       UnitsPerPaisa)

\* a second order with several discounted lines, after a first one
C5_Witness ==
    /\ Len(orders) = 2
    /\ Len(LinesOf(1)) = 2
    /\ Len(LinesOf(2)) = 2
    /\ orders[2].DISCOUNT_AMOUNT > 0
    /\ orders[1].TOTAL_AMOUNT # orders[2].TOTAL_AMOUNT

\* C6: for every order the stored TOTAL_AMOUNT equals exactly the sum of
\* the stored TOTAL_LINE_AMOUNT values of that order's lines.
C6_TotalIsSumOfStoredLines ==
    \A k \in 1..Len(orders) :
      LET lines == LinesOf(orders[k].ORDER_ID)
      IN  orders[k].TOTAL_AMOUNT =
            SumSeq([j \in 1..Len(lines) |-> lines[j].TOTAL_LINE_AMOUNT])

\* C7: for every order line 0 <= DISCOUNT_PERCENT <= 20 and the stored
\* TOTAL_LINE_AMOUNT is round(UNIT_PRICE * QUANTITY_ORDERED *
\* (1 - DISCOUNT_PERCENT/100), 2) computed from the stored DISCOUNT_PERCENT.
\* (UNIT_PRICE is a whole number of rupees; the recomputation is a float
\* product, so either neighbour is accepted on a tie.)
C7_LineTotalFromStoredPercent ==
    \A k \in 1..Len(order_details) :
      LET l == order_details[k]
      IN  /\ 0 <= l.DISCOUNT_PERCENT
          /\ l.DISCOUNT_PERCENT <= 2000
          /\ l.TOTAL_LINE_AMOUNT \in
               RoundNear((l.UNIT_PRICE \div 100) * l.QUANTITY_ORDERED
                           * (10000 - l.DISCOUNT_PERCENT),
                         100)

\* C8: every order has min(k, catalog size) lines for some k in 1..5, the
\* PRODUCT_IDs of one order are pairwise distinct, and (ORDER_ID,
\* PRODUCT_ID) is unique across all order lines.
C8_LinesSampledWithoutReplacement ==
    /\ \A o \in 1..Len(orders) :
         LET lines == LinesOf(orders[o].ORDER_ID)
         IN  /\ \E k \in 1..MaxProductsPerOrder :
                  Len(lines) = Min2(k, Len(products))
             /\ \A a, b \in 1..Len(lines) :
                  a # b => lines[a].PRODUCT_ID # lines[b].PRODUCT_ID
    /\ \A a, b \in 1..Len(order_details) :
         a # b => <<order_details[a].ORDER_ID, order_details[a].PRODUCT_ID>>
                    # <<order_details[b].ORDER_ID, order_details[b].PRODUCT_ID>>

\* a catalog of two products: an order clamped to it and an order below it
C8_Witness ==
    /\ OrdersReturned
    /\ Len(products) = 2
    /\ Len(orders) = 2
    /\ Len(LinesOf(1)) = 2
    /\ Len(LinesOf(2)) = 1

\* C9: the ids of each table are the dense integers 1..N, in row order,
\* for a table of N rows.
C9_IdsAreDense ==
    /\ \A k \in 1..Len(customers) : customers[k].CUSTOMER_ID = k
    /\ \A k \in 1..Len(customer_addresses) : customer_addresses[k].ADDRESS_ID = k
    /\ \A k \in 1..Len(products) : products[k].PRODUCT_ID = k
    /\ \A k \in 1..Len(stores) : stores[k].STORE_ID = k
    /\ \A k \in 1..Len(employees) : employees[k].EMPLOYEE_ID = k
    /\ \A k \in 1..Len(orders) : orders[k].ORDER_ID = k
    /\ Returned =>
         /\ Len(customers) = num_customers
         /\ Len(products) = num_products
         /\ Len(stores) = num_stores
         /\ Len(employees) = num_employees
         /\ Len(orders) = num_orders

\* a returned run with several rows in every table
C9_Witness ==
    /\ Returned
    /\ Len(customers) = 2
    /\ Len(customer_addresses) = 4
    /\ Len(products) = 2
    /\ Len(stores) = 2
    /\ Len(employees) = 2
    /\ Len(orders) = 2

\* the addresses of a customer, in table order
AddressesOfCustomer(customer_id) ==
    SelectSeq(customer_addresses, LAMBDA a : a.CUSTOMER_ID = customer_id)

AddressesReturned == pc \notin {"customers", "addresses"}

\* C10: after generate_customer_addresses every customer has 1 or 2
\* addresses, exactly one of them default: the first, typed Primary; a
\* second one is Secondary and not default.
C10_OneDefaultAddressPerCustomer ==
    AddressesReturned =>
      \A c \in 1..Len(customers) :
        LET as == AddressesOfCustomer(customers[c].CUSTOMER_ID)
        IN  /\ Len(as) \in {1, 2}
            /\ Cardinality({k \in 1..Len(as) : as[k].IS_DEFAULT}) = 1
            /\ as[1].IS_DEFAULT
            /\ as[1].ADDRESS_TYPE = "Primary"
            /\ Len(as) = 2 =>
                 /\ ~as[2].IS_DEFAULT
                 /\ as[2].ADDRESS_TYPE = "Secondary"

\* one customer with one address and one with two
C10_Witness ==
    /\ AddressesReturned
    /\ Len(customers) = 2
    /\ Len(AddressesOfCustomer(1)) = 2
    /\ Len(AddressesOfCustomer(2)) = 1

\* C11: for any positive requested counts every run of generate_all_data
\* returns, with exactly the requested numbers of customers, products,
\* stores, employees and orders, between o and 5*o order lines for o orders,
\* and no order at a store without employees.
C11_EveryRunProducesRequestedCounts ==
    /\ pc # "failed"
    /\ Returned =>
         /\ Len(customers) = num_customers
         /\ Len(products) = num_products
         /\ Len(stores) = num_stores
         /\ Len(employees) = num_employees
         /\ Len(orders) = num_orders
         /\ num_orders <= Len(order_details)
         /\ Len(order_details) <= MaxProductsPerOrder * num_orders
         /\ \A k \in 1..Len(orders) :
              \E e \in 1..Len(employees) :
                employees[e].STORE_ID = orders[k].STORE_ID

\* C12: when a requested count is zero or negative the run fails and
\* returns no table, and generate_employees does not return when it is
\* given no stores.
C12_ConfigErrorFailsFast ==
    /\ (\E n \in {num_customers, num_products, num_stores, num_employees, num_orders} :
          n <= 0)
         => ~Returned
    /\ stores = <<>> => pc \notin {"orders", "flatten", "done", "exported"}

\* C13: once a generator step has failed, generate_all_data returns
\* nothing and export_to_csv is not reached: no file is written; files are
\* written only by export_to_csv after a run without failure.
C13_FailureAbortsRun ==
    /\ error # NoError => pc = "failed" /\ files = {}
    /\ pc = "failed" => error # NoError
    /\ files # {} => pc = "exported"

\* a run that fails after it has created orders
C13_Witness ==
    /\ pc = "failed"
    /\ error = <<"IndexError", 334>>
    /\ orders # <<>>
    /\ order_details # <<>>

\* C14: for every order: a SHIP_DATE before today has ORDER_STATUS
\* Delivered or Shipped, a SHIP_DATE of today or later has Shipped, no
\* SHIP_DATE has Pending or Processing; PAYMENT_STATUS is Completed exactly
\* when SHIP_DATE is present, and Pending otherwise.
C14_StatusFollowsShipDate ==
    \A k \in 1..Len(orders) :
      LET o == orders[k]
      IN  /\ (IsSome(o.SHIP_DATE) /\ Get(o.SHIP_DATE) < today)
               => o.ORDER_STATUS \in {"Delivered", "Shipped"}
          /\ (IsSome(o.SHIP_DATE) /\ Get(o.SHIP_DATE) >= today)
               => o.ORDER_STATUS = "Shipped"
          /\ ~IsSome(o.SHIP_DATE) => o.ORDER_STATUS \in {"Pending", "Processing"}
          /\ o.PAYMENT_STATUS = (IF IsSome(o.SHIP_DATE) THEN "Completed" ELSE "Pending")

\* an order shipped today after a delivered one
C14_Witness ==
    /\ Len(orders) = 2
    /\ orders[1].SHIP_DATE # None
    /\ Get(orders[1].SHIP_DATE) < today
    /\ orders[1].ORDER_STATUS = "Delivered"
    /\ orders[2].SHIP_DATE = Some(today)

\* C15: every product has UNIT_COST < UNIT_PRICE and UNIT_PRICE <= MSRP, as
\* stored (rounded to 2 decimals).
C15_CostBelowPriceBelowMsrp ==
    \A k \in 1..Len(products) :
      /\ products[k].UNIT_COST < products[k].UNIT_PRICE
      /\ products[k].UNIT_PRICE <= products[k].MSRP

\* the dearest cost and the cheapest MSRP, at the least and the largest
\* base price
C15_Witness ==
    /\ Len(products) = 2
    /\ products[1].UNIT_PRICE = MinBasePrice * 100
    /\ products[1].UNIT_COST * (FactorDen \div 100) = MinBasePrice * MaxCostFactor
    /\ products[2].UNIT_PRICE = MaxBasePrice * 100
    /\ products[2].MSRP * (FactorDen \div 100) = MaxBasePrice * MinMsrpFactor

\* C16 (as claimed): every customer's ANNUAL_INCOME lies in the band of the
\* customer's segment, and in the band of no other segment.
C16_IncomeDeterminesSegment ==
    \A k \in 1..Len(customers) :
      /\ customers[k].ANNUAL_INCOME \in IncomeBand(customers[k].CUSTOMER_SEGMENT)
      /\ \A other \in customer_segments \ {customers[k].CUSTOMER_SEGMENT} :
           customers[k].ANNUAL_INCOME \notin IncomeBand(other)

\* C16 (amended): every customer's ANNUAL_INCOME lies in the band of the
\* customer's segment: Premium 1,500,000..5,000,000, VIP
\* 5,000,000..15,000,000, Regular 500,000..1,500,000, Occasional
\* 200,000..800,000.  The bands overlap (Occasional and Regular on
\* 500,000..800,000, Regular and Premium at 1,500,000, Premium and VIP at
\* 5,000,000); an income outside the overlaps determines the segment.
C16_IncomeWithinSegmentBand ==
    \A k \in 1..Len(customers) :
      LET income == customers[k].ANNUAL_INCOME
          segment == customers[k].CUSTOMER_SEGMENT
      IN  /\ segment = "Premium" => 1500000 <= income /\ income <= 5000000
          /\ segment = "VIP" => 5000000 <= income /\ income <= 15000000
          /\ segment = "Regular" => 500000 <= income /\ income <= 1500000
          /\ segment = "Occasional" => 200000 <= income /\ income <= 800000
          /\ segment \in {"Premium", "VIP", "Regular", "Occasional"}
          /\ income < 500000 => segment = "Occasional"
          /\ (800000 < income /\ income < 1500000) => segment = "Regular"
          /\ (1500000 < income /\ income < 5000000) => segment = "Premium"
          /\ income > 5000000 => segment = "VIP"

\* two customers of different segments with the same income, and one
\* whose income is in one band only
C16_Witness ==
    /\ pc = "addresses"
    /\ Len(customers) = 2
    /\ customers[1].CUSTOMER_SEGMENT = "Occasional"
    /\ customers[2].CUSTOMER_SEGMENT = "Regular"
    /\ customers[1].ANNUAL_INCOME = customers[2].ANNUAL_INCOME

\* generate_employees has returned
EmployeesReturned ==
    \/ pc \in {"orders", "flatten", "done", "exported"}
    \/ pc = "failed" /\ error[2] \in {332, 333, 334}

\* the EMPLOYEE_IDs of the Manager-titled employees of a store
ManagersAt(store_id) ==
    {employees[e].EMPLOYEE_ID : e \in
       {e \in 1..Len(employees) : /\ IsManagerTitle(employees[e].JOB_TITLE)
                                  /\ employees[e].STORE_ID = store_id}}

\* C17: after generate_employees, a store with at least one Manager-titled
\* employee has the EMPLOYEE_ID of one of them as MANAGER_ID; any other
\* store has MANAGER_ID unset.
C17_StoreManagerBackfill ==
    EmployeesReturned =>
      \A k \in 1..Len(stores) :
        IF ManagersAt(stores[k].STORE_ID) # {}
        THEN /\ IsSome(stores[k].MANAGER_ID)
             /\ Get(stores[k].MANAGER_ID) \in ManagersAt(stores[k].STORE_ID)
        ELSE stores[k].MANAGER_ID = None

\* a store with a manager, and a store with a manager-less employee only
C17_Witness ==
    /\ EmployeesReturned
    /\ Len(stores) = 2
    /\ Len(employees) = 2
    /\ ManagersAt(1) # {}
    /\ ManagersAt(2) = {}
    /\ employees[2].STORE_ID = 2
    /\ stores[1].MANAGER_ID # None

\* the employee with a given EMPLOYEE_ID
EmployeeById(id) ==
    employees[CHOOSE e \in 1..Len(employees) : employees[e].EMPLOYEE_ID = id]

\* following MANAGER_ID from an employee ends within n steps
RECURSIVE ChainEnds(_, _)
ChainEnds(emp, n) ==
    \/ emp.MANAGER_ID = None
    \/ /\ n > 0
       /\ ChainEnds(EmployeeById(Get(emp.MANAGER_ID)), n - 1)

\* C18: after generate_employees, an employee with a MANAGER_ID has no
\* Manager title, the MANAGER_ID is the EMPLOYEE_ID of a Manager-titled
\* employee, no employee is its own manager, and the manager relation has
\* no cycle.
C18_ManagersComeFromManagerSubset ==
    EmployeesReturned =>
      \A k \in 1..Len(employees) :
        LET emp == employees[k]
        IN  IsSome(emp.MANAGER_ID) =>
              /\ ~IsManagerTitle(emp.JOB_TITLE)
              /\ \E m \in 1..Len(employees) :
                   /\ employees[m].EMPLOYEE_ID = Get(emp.MANAGER_ID)
                   /\ IsManagerTitle(employees[m].JOB_TITLE)
              /\ Get(emp.MANAGER_ID) # emp.EMPLOYEE_ID
              /\ ChainEnds(emp, Len(employees))

\* an employee whose manager works at another store
C18_Witness ==
    /\ EmployeesReturned
    /\ \E k, m \in 1..Len(employees) :
         /\ employees[k].MANAGER_ID = Some(employees[m].EMPLOYEE_ID)
         /\ employees[k].STORE_ID # employees[m].STORE_ID

\* the rows of old are the first rows of new, unchanged
IsPrefix(old, new) ==
    /\ Len(old) <= Len(new)
    /\ \A k \in 1..Len(old) : new[k] = old[k]

\* a store's row without its MANAGER_ID
WithoutManager(row) == [row EXCEPT !.MANAGER_ID = None]

\* C19: a row, once created, changes only by the two back-fill passes:
\* generate_employees changes no store except in MANAGER_ID (and adds or
\* removes none), generate_orders leaves customers, stores, employees and
\* products unchanged, the flattening step leaves the eight base tables
\* unchanged; everywhere else rows are only appended.
C19_OnlyBackfillMutates ==
    [][/\ pc \in {"employees", "assign_managers", "store_managers"} =>
            /\ Len(stores') = Len(stores)
            /\ \A k \in 1..Len(stores) :
                 WithoutManager(stores'[k]) = WithoutManager(stores[k])
       /\ pc # "store_managers" => IsPrefix(stores, stores')
       /\ pc # "assign_managers" => IsPrefix(employees, employees')
       /\ pc = "assign_managers" =>
            /\ Len(employees') = Len(employees)
            /\ \A k \in 1..Len(employees) :
                 WithoutManager(employees'[k]) = WithoutManager(employees[k])
       /\ pc = "orders" => UNCHANGED <<customers, stores, employees, products>>
       /\ pc = "flatten" =>
            UNCHANGED <<customers, customer_addresses, product_categories,
                        products, stores, employees, orders, order_details>>
       /\ IsPrefix(customers, customers')
       /\ IsPrefix(customer_addresses, customer_addresses')
       /\ IsPrefix(product_categories, product_categories')
       /\ IsPrefix(products, products')
       /\ IsPrefix(orders, orders')
       /\ IsPrefix(order_details, order_details')
       /\ IsPrefix(sales_data, sales_data')]_vars

\* a returned run in which both back-fill passes have set a MANAGER_ID and
\* the flattening step has added rows
C19_Witness ==
    /\ Returned
    /\ \E k \in 1..Len(stores) : stores[k].MANAGER_ID # None
    /\ \E k \in 1..Len(employees) : employees[k].MANAGER_ID # None
    /\ Len(sales_data) = 2

\* the values of a field over the rows of a table
IdsOf(table, field) == {table[k][field] : k \in 1..Len(table)}

\* the rows a step has appended to a table
Appended(old, new) == {new[k] : k \in (Len(old) + 1)..Len(new)}

\* a step creates rows in dependency order: every foreign key of a row
\* it appends is the id of an existing row, an order line's ORDER_ID being
\* among order_ids; the tables are filled in dependency order; MANAGER_ID
\* is unset in a new store or employee and is set only by the back-fill
\* passes, when all employees exist, to the id of an employee
CreatesInDependencyOrder(order_ids) ==
    /\ \A a \in Appended(customer_addresses, customer_addresses') :
         a.CUSTOMER_ID \in IdsOf(customers, "CUSTOMER_ID")
    /\ \A p \in Appended(products, products') :
         p.CATEGORY_ID \in IdsOf(product_categories, "CATEGORY_ID")
    /\ \A s \in Appended(stores, stores') : s.MANAGER_ID = None
    /\ \A e \in Appended(employees, employees') :
         /\ e.STORE_ID \in IdsOf(stores, "STORE_ID")
         /\ e.MANAGER_ID = None
    /\ \A o \in Appended(orders, orders') :
         /\ o.CUSTOMER_ID \in IdsOf(customers, "CUSTOMER_ID")
         /\ o.STORE_ID \in IdsOf(stores, "STORE_ID")
         /\ o.EMPLOYEE_ID \in IdsOf(employees, "EMPLOYEE_ID")
    /\ \A l \in Appended(order_details, order_details') :
         /\ l.PRODUCT_ID \in IdsOf(products, "PRODUCT_ID")
         /\ l.ORDER_ID \in order_ids
    /\ customer_addresses' # <<>> => Len(customers) = num_customers
    /\ products' # <<>> => product_categories # <<>>
    /\ employees' # <<>> => Len(stores) = num_stores
    /\ orders' # <<>> =>
         /\ Len(customers) = num_customers
         /\ Len(products) = num_products
         /\ Len(stores) = num_stores
         /\ Len(employees) = num_employees
    /\ \A k \in 1..Len(employees) :
         employees'[k].MANAGER_ID # employees[k].MANAGER_ID =>
           /\ pc = "assign_managers"
           /\ Len(employees) = num_employees
           /\ Get(employees'[k].MANAGER_ID) \in IdsOf(employees, "EMPLOYEE_ID")
    /\ \A k \in 1..Len(stores) :
         stores'[k].MANAGER_ID # stores[k].MANAGER_ID =>
           /\ pc = "store_managers"
           /\ Len(employees) = num_employees
           /\ Get(stores'[k].MANAGER_ID) \in IdsOf(employees, "EMPLOYEE_ID")

\* C20 (as claimed): generation runs in dependency order and, when a row is
\* created, every foreign key it carries is the id of a row that already
\* exists; MANAGER_ID alone is resolved later, by the back-fill passes.
C20_NoForwardReferences ==
    [][CreatesInDependencyOrder(IdsOf(orders, "ORDER_ID"))]_vars

\* C20 (amended): as claimed, except that the lines of an order are created
\* before the order's own row, which the same iteration of generate_orders
\* appends after them: the ORDER_ID of a new line is the id of the order i
\* being generated, and every line's order exists whenever an iteration
\* has ended.
C20_NoForwardReferencesButOwnOrder ==
    [][/\ CreatesInDependencyOrder(IdsOf(orders, "ORDER_ID") \cup {i})
       /\ order_locals' = None =>
            IdsOf(order_details', "ORDER_ID") \subseteq IdsOf(orders', "ORDER_ID")]_vars

\* a returned run with rows in every table and both MANAGER_IDs set
C20_Witness ==
    /\ Returned
    /\ Len(customer_addresses) = 4
    /\ Len(order_details) = 4
    /\ Len(employees) = 2
    /\ \E k \in 1..Len(stores) : stores[k].MANAGER_ID # None
    /\ \E k \in 1..Len(employees) : employees[k].MANAGER_ID # None

\* the orders that have at least one line, in table order
OrdersWithLines == SelectSeq(orders, LAMBDA o : LinesOf(o.ORDER_ID) # <<>>)

\* C21: sales_data has one row for each order that has a line and no other
\* row, in the order of the orders; the row carries the order's fields and
\* PRODUCT_ID, QUANTITY_ORDERED, UNIT_PRICE, DISCOUNT_PERCENT and line total
\* of the first line generated for that order; with a non-empty catalog it
\* has as many rows as there are orders.
C21_SalesDataIsFirstLinePerOrder ==
    Returned =>
      /\ Len(sales_data) = Len(OrdersWithLines)
      /\ \A k \in 1..Len(sales_data) :
           LET row == sales_data[k]
               o == OrdersWithLines[k]
               first == LinesOf(o.ORDER_ID)[1]
           IN  /\ row.ORDER_ID = o.ORDER_ID
               /\ row.CUSTOMER_ID = o.CUSTOMER_ID
               /\ row.STORE_ID = o.STORE_ID
               /\ row.EMPLOYEE_ID = o.EMPLOYEE_ID
               /\ row.PRODUCT_ID = first.PRODUCT_ID
               /\ row.QUANTITY_ORDERED = first.QUANTITY_ORDERED
               /\ row.UNIT_PRICE = first.UNIT_PRICE
               /\ row.DISCOUNT_PERCENT = first.DISCOUNT_PERCENT
               /\ row.TOTAL_AMOUNT = first.TOTAL_LINE_AMOUNT
      /\ products # <<>> =>
           /\ Len(sales_data) = Len(orders)
           /\ \A k \in 1..Len(sales_data) : sales_data[k].ORDER_ID = k

\* two orders of two lines each, the first lines on different products
C21_Witness ==
    /\ Returned
    /\ Len(orders) = 2
    /\ Len(order_details) = 4
    /\ Len(sales_data) = 2
    /\ sales_data[1].PRODUCT_ID # sales_data[2].PRODUCT_ID

\* C24: generate_all_data, called with positive counts, eventually returns
\* its nine tables.
C24_EventuallyReturns == <>Returned

\* C25: generate_employees never fails with an empty selection when it
\* chooses a manager for a non-manager (line 316).
C25_NoEmptyManagerSelection == error # <<"IndexError", 316>>

\* C26: for every order TOTAL_AMOUNT + DISCOUNT_AMOUNT is the sum of
\* UNIT_PRICE * QUANTITY_ORDERED over the order's lines, within 0.01 (each
\* of the two is rounded to 0.01), and FINAL_AMOUNT is positive for every
\* order that has a line.
C26_TotalIsPostDiscountSubtotal ==
    \A k \in 1..Len(orders) :
      LET o == orders[k]
          lines == LinesOf(o.ORDER_ID)
          gross == SumSeq([j \in 1..Len(lines) |->
                             lines[j].UNIT_PRICE * lines[j].QUANTITY_ORDERED])
      IN  /\ Abs(o.TOTAL_AMOUNT + o.DISCOUNT_AMOUNT - gross) <= 1
          /\ lines # <<>> => o.FINAL_AMOUNT > 0

\* an order of two lines of different products at the largest discount,
\* where FINAL_AMOUNT is least against the gross sum
C26_Witness ==
    \E k \in 1..Len(orders) :
      LET o == orders[k]
          lines == LinesOf(o.ORDER_ID)
      IN  /\ Len(lines) = 2
          /\ \A j \in 1..2 : lines[j].DISCOUNT_PERCENT = DiscountPercent(MaxDiscountFrac)
          /\ lines[1].UNIT_PRICE # lines[2].UNIT_PRICE
          /\ o.DISCOUNT_AMOUNT > 0
          /\ o.FINAL_AMOUNT < o.TOTAL_AMOUNT + o.DISCOUNT_AMOUNT

\* C22 (as stated): after export_to_csv a file exists for every one of the
\* nine table names, whether or not the table has rows, and the returned
\* path is that of the sales_data file.
C22_OneFilePerTable ==
    pc = "exported" =>
      /\ \A t \in DOMAIN data : t \in files
      /\ sales_filepath = Some("sales_data")

\* C22 (amended): after export_to_csv a file exists for a table name
\* exactly when the table has rows or is sales_data, and the returned path
\* is that of the sales_data file.
C22_OneFilePerNonEmptyTable ==
    pc = "exported" =>
      /\ \A t \in DOMAIN data : t \in files <=> (Len(data[t]) > 0 \/ t = "sales_data")
      /\ files \subseteq DOMAIN data
      /\ sales_filepath = Some("sales_data")

C22_Witness ==
    /\ pc = "exported"
    /\ Len(customers) > 0
    /\ Len(orders) = 0
    /\ Len(sales_data) = 0
    /\ "customers" \in files
    /\ "orders" \notin files
    /\ "sales_data" \in files

\* C23: two calls of generate_orders with the same arguments and the same
\* draws return the same orders, whatever the day each call is made on.
C23_SameDrawsSameOrders ==
    (OrdersReturned /\ rerun.order_locals = None) => rerun.orders = orders
\* the commit commands run so far, in order
CommitCommands == SelectSeq(git_commands, LAMBDA c : c.cmd[2] = "commit")

\* create_realistic_commits is past its last commit
CommitsCreated == deploy_pc \in {"tags", "push", "deployed"}

Max2(a, b) == IF a > b THEN a ELSE b

\* the messages of the seven commits, in the stated order
FixedCommitMessages ==
    <<"Initial Snowflake sales data analysis project setup",
      "Added comprehensive project documentation",
      "Configured Snowflake connection profiles and settings",
      "Added Pakistan sales data CSV files",
      "Created OLTP database schema and setup scripts",
      "Built OLAP data warehouse structure",
      "Added Python scripts for data generation and dashboard">>

\* C27: create_realistic_commits issues exactly min(max(TOTAL_COMMITS, 1), 7)
\* commit commands, in the order initialization, core documentation,
\* Snowflake configuration, data files, OLTP scripts, OLAP scripts, Python
\* scripts; the commit of remaining files is never issued, and the messages
\* are those seven whatever list of commit messages was loaded.
C27_FixedBoundedCommitSequence ==
    LET messages == [k \in 1..Len(CommitCommands) |-> CommitCommands[k].cmd[4]]
    IN  /\ IsPrefix(messages, FixedCommitMessages)
        /\ CommitsCreated =>
             Len(CommitCommands) = Min2(Max2(TOTAL_COMMITS, 1), 7)
        /\ \A k \in 1..Len(git_commands) :
             git_commands[k].cmd # <<"git", "commit", "-m",
                                     "Added remaining project files and configurations">>

C27_Witness ==
    /\ deploy_pc = "deployed"
    /\ TOTAL_COMMITS > 7
    /\ Len(CommitCommands) = 7
    /\ existing = Elements(StructureFiles)
    /\ COMMIT_MESSAGES = <<"wip">>

\* the seconds from day 0 to a formatted date
SecondsOf(date_str) ==
    date_str[1] * 86400 + date_str[2] * 3600 + date_str[3] * 60 + date_str[4]

\* C28: every commit has equal author and committer dates; commit 1 is
\* dated START_DATE and commit k >= 2 is dated, to the whole second,
\* START_DATE + (END_DATE - START_DATE) * (k - 1) / (TOTAL_COMMITS - 1); the
\* divisor is never zero when evaluated; when START_DATE <= END_DATE the
\* dates are non-decreasing in commit order and lie within
\* [START_DATE, END_DATE].
C28_BackdatedCommits ==
    LET start == START_DATE.seconds
        end   == END_DATE.seconds
        date(k) == SecondsOf(Get(CommitCommands[k].env).GIT_AUTHOR_DATE)
    IN  /\ deploy_error # <<"ZeroDivisionError", 195>>
        /\ \A k \in 1..Len(CommitCommands) :
             LET env == CommitCommands[k].env
             IN  /\ IsSome(env)
                 /\ Get(env).GIT_AUTHOR_DATE = Get(env).GIT_COMMITTER_DATE
                 /\ Get(env).GIT_AUTHOR_DATE[2] \in 0..23
                 /\ Get(env).GIT_AUTHOR_DATE[3] \in 0..59
                 /\ Get(env).GIT_AUTHOR_DATE[4] \in 0..59
                 /\ k = 1 => date(k) = start
                 /\ k >= 2 =>
                      /\ TOTAL_COMMITS - 1 > 0
                      /\ (date(k) - start) * (TOTAL_COMMITS - 1) <= (end - start) * (k - 1)
                      /\ (date(k) - start + 1) * (TOTAL_COMMITS - 1) > (end - start) * (k - 1)
                 /\ start <= end =>
                      /\ start <= date(k)
                      /\ date(k) <= end
                      /\ k >= 2 => date(k - 1) <= date(k)

C28_Witness ==
    /\ deploy_pc = "deployed"
    /\ TOTAL_COMMITS = 8
    /\ Len(CommitCommands) = 7
    /\ END_DATE.seconds = START_DATE.seconds + 86400
    /\ Get(CommitCommands[2].env).GIT_AUTHOR_DATE[4] # 0
    /\ SecondsOf(Get(CommitCommands[7].env).GIT_AUTHOR_DATE) < END_DATE.seconds

\* the stage of the deployment a git command belongs to: 1 repository
\* setup, 2 commits, 3 tags, 4 push
Phase(c) ==
    CASE c.cmd[2] \in {"init", "remote", "branch"} -> 1
      [] c.cmd[2] \in {"add", "commit"} -> 2
      [] c.cmd[2] = "tag" -> 3
      [] c.cmd[2] = "push" -> 4

\* C29: no git command is run unless the answer to the prompt is y or yes;
\* the commands run are the repository setup (remote remove, remote add,
\* branch rename to main), then the commits, then the tags, then a single
\* push, which ends the deployment.
C29_ConfirmedAndOrdered ==
    LET setup == SelectSeq(git_commands,
                           LAMBDA c : Phase(c) = 1 /\ c.cmd[2] # "init")
        pushes == SelectSeq(git_commands, LAMBDA c : Phase(c) = 4)
    IN  /\ git_commands # <<>> => confirm \in {<<<<"y">>>>, <<<<"y", "e", "s">>>>}
        /\ \A j, k \in 1..Len(git_commands) :
             j < k => Phase(git_commands[j]) <= Phase(git_commands[k])
        /\ IsPrefix([k \in 1..Len(setup) |-> SubSeq(setup[k].cmd, 2, 3)],
                    <<<<"remote", "remove">>, <<"remote", "add">>, <<"branch", "-M">>>>)
        /\ Len(CommitCommands) > 0 => Len(setup) = 3
        /\ Len(pushes) <= 1
        /\ Len(pushes) = 1 <=> deploy_pc = "deployed"
        /\ deploy_pc = "deployed" =>
             /\ Len(CommitCommands) > 0
             /\ \E k \in 1..Len(git_commands) : Phase(git_commands[k]) = 3

C29_Witness ==
    /\ deploy_pc = "deployed"
    /\ answer = <<<<" ", "Y", "E", "S", "\t">>>>
    /\ git_commands[1].cmd = <<"git", "init">>
    /\ Len(SelectSeq(git_commands, LAMBDA c : Phase(c) = 3)) = 3
    /\ Phase(git_commands[Len(git_commands)]) = 4
====
